---- MODULE Spec2Model ----
(***************************************************************************)
(* Model of the whiteboard server's session synchronisation layer:         *)
(* server/src/sockets/socketHandler.ts (class SocketManager) together with *)
(* the Element mongoose model it reads and writes.                         *)
(*                                                                         *)
(* JavaScript Maps are functions with a finite domain (a key is present    *)
(* iff it is in DOMAIN).  Every await of the durable store is a suspension *)
(* point: the part of a handler before the await and the part after it are *)
(* two actions, and the pending continuation is an entry of `loads' (reads)*)
(* or `saves' (writes).  A read returns the document the store holds when  *)
(* the read completes.  Time is counted in steps of TickMs milliseconds.   *)
(***************************************************************************)
EXTENDS Integers, Sequences, FiniteSets, TLC

(* ---------------------------- bounds ----------------------------------- *)
MaxEvents == 3
MaxPending == 1
TickMs == 2500

(* ------------------------ program constants ---------------------------- *)
DebounceMs == 5000

(* --------------------------- input sets -------------------------------- *)
Conns == {"s1", "s2"}
RoomIds == {"r1", "r2"}
\* element collections are sequences of element ids.  The n-th element-update
\* the server receives carries PayloadAt(n): consecutive updates differ, so a
\* collection tells which update it came from; the second one repeats an id.
PayloadSeq == << <<"e2", "e1">>, <<"e1", "e1">>, <<"e1">> >>
PayloadAt(n) == PayloadSeq[((n - 1) % Len(PayloadSeq)) + 1]
\* the id of an element whose content socket.io cannot encode (an object nested
\* too deeply for JSON.stringify): every emit that carries it throws
UnencodableElement == "u"
Encodable(elements) ==
  \A i \in DOMAIN elements : elements[i] # UnencodableElement
\* what the n-th element-update may carry: the first one received may hold
\* the element that cannot be encoded
ElementPayloads(n) ==
  IF n = 1 THEN {PayloadAt(n), <<UnencodableElement>>} ELSE {PayloadAt(n)}
Positions == {<<2, 3>>}
\* a cursor payload that socket.io cannot encode for the broadcast (an object
\* nested too deeply for JSON.stringify): socket.to(...).emit throws on it
Unencodable == {<<9, 9>>}
CursorPayloads == Positions \cup Unencodable

Str(v) == [t |-> "string", v |-> v]
Undef == [t |-> "undefined", v |-> ""]
Num(v) == [t |-> "number", v |-> v]

\* handshake.auth of the connections, one table per initial state
Handshake(c1, s1, c2, s2) ==
  [x \in Conns |-> IF x = "s1" THEN [canvasId |-> c1, sessionId |-> s1]
                   ELSE [canvasId |-> c2, sessionId |-> s2]]

Handshakes ==
  { Handshake(Str("r1"), "p1", Str("r1"), "p2"),
    Handshake(Str("r1"), "p1", Str("r1"), "p1"),
    Handshake(Str("r1"), "p1", Str("r2"), "p2"),
    Handshake(Str("r1"), "p1", Str("r1"), ""),
    Handshake(Str("r1"), "p1", Str(""), "p2"),
    Handshake(Str("r1"), "p1", Undef, "p2"),
    Handshake(Str("r1"), "p1", Num("7"), "p2") }

\* documents the Element collection can hold before the server starts: none,
\* or, where both connections ask for room r1 under different sessionIds, a
\* document of r1
InitialStores(a) ==
  IF a = Handshake(Str("r1"), "p1", Str("r1"), "p2")
    THEN { <<>>, [r \in {"r1"} |-> [element |-> <<"e2">>]] }
    ELSE { <<>> }

VARIABLES
  auth,            \* socket.handshake.auth of each connection
  sockSt,          \* "new" | "open" | "closed" | "rejected"
  ioRooms,         \* socket.io rooms: room id -> sockets that joined it
  activeCanvases,  \* Map canvasId -> [element, users]
  debounceTimers,  \* Map canvasId -> timer id
  timers,          \* armed runtime timers: [id, canvasId, left]
  loads,           \* pending ElementModel.findById awaits
  saves,           \* pending ElementModel.findByIdAndUpdate awaits
  store,           \* the Element collection: canvasId -> document
  out,             \* events emitted by the last step
  updLog,          \* history: element-update events in arrival order
  applied,         \* history: indices of updLog in application order
  nJoins,          \* number of join-canvas events received
  sinceUpd,        \* ms since the last applied update of a room (capped)
  burstWrites,     \* writes issued for the current burst of a room
  saveRes,         \* outcome of the last completed save of a room
  registered,      \* history: sockets that users.set (line 135) has run for
  catches          \* listeners whose handler threw in this turn of the event
                   \* loop: their catch clauses, in the order they will run

vars == <<auth, sockSt, ioRooms, activeCanvases, debounceTimers, timers,
          loads, saves, store, out, updLog, applied, nJoins, sinceUpd,
          burstWrites, saveRes, registered, catches>>

(* ---------------------------- helpers ---------------------------------- *)
Has(m, k) == k \in DOMAIN m
MapSet(m, k, v) == [x \in (DOMAIN m) \cup {k} |-> IF x = k THEN v ELSE m[x]]
MapDelete(m, k) == [x \in (DOMAIN m) \ {k} |-> m[x]]
Min(a, b) == IF a < b THEN a ELSE b
Max(a, b) == IF a > b THEN a ELSE b

\* JavaScript truthiness of a handshake value
Truthy(x) ==
  CASE x.t = "undefined" -> FALSE
    [] x.t = "string" -> x.v # ""
    [] x.t = "number" -> x.v # "0"
    [] OTHER -> TRUE

\* socket.data.canvasId / socket.data.sessionId of an admitted socket
CanvasIdOf(c) == auth[c].canvasId.v
SessionIdOf(c) == auth[c].sessionId

\* one emitted event: k is its position among the events of the step
Msg(k, to, ev, src, canvasId, element, users, sessionId, pos) ==
  [k |-> k, to |-> to, ev |-> ev, src |-> src, canvasId |-> canvasId,
   element |-> element, users |-> users, sessionId |-> sessionId,
   pos |-> pos]

\* socket.emit(ev, ...): a packet for a socket that is not open is discarded
SocketEmit(c, m) == IF sockSt[c] = "open" THEN {m} ELSE {}

\* the listeners await their handlers (lines 55, 67, 77): a handler that throws
\* before its first await leaves the catch clause of its listener to run after
\* the events that were dispatched in the same turn of the event loop
Thrown(c, on) == [sock |-> c, on |-> on]

\* what the catch clause of the listener of event `on' emits (lines 61, 79)
CatchEvent(on) ==
  IF on = "join-canvas" THEN "join-error"
  ELSE "error handling multiple cursors"

\* store answers, timers and handshakes are later turns of the event loop:
\* they find no catch clause pending
Settled == catches = <<>>

\* an event of socket c is dispatched: while catch clauses are pending, only
\* further events of the socket whose handler threw are
Dispatches(c) == \A i \in DOMAIN catches : catches[i].sock = c

\* the events the handlers emit on their regular paths (lines 137, 142, 144,
\* 157, 204, 223); every other event name, such as the ones emitted by the
\* catch clauses of the listeners, reports an error
RegularEvents ==
  {"canvas-state", "users-joined", "user-joined", "user-left",
   "elements-updated", "user-cursors"}

\* socket.broadcast in place of socket.to(canvasId): every other socket of
\* the server, whatever its room
BroadcastTargetsAnyRoom(c, canvasId) ==
  UNION {ioRooms[r] : r \in RoomIds} \ {c}

\* io.to(canvasId) in place of socket.to(canvasId): the sender is not excluded
BroadcastTargetsAll(c, canvasId) == ioRooms[canvasId]

\* socket.to(canvasId): every socket in the room except the sender
BroadcastTargets(c, canvasId) == ioRooms[canvasId] \ {c}

(* ------------------------------ Init ----------------------------------- *)
Init ==
  /\ auth \in Handshakes
  /\ sockSt = [c \in Conns |-> "new"]
  /\ ioRooms = [r \in RoomIds |-> {}]
  /\ activeCanvases = <<>>
  /\ debounceTimers = <<>>
  /\ timers = {}
  /\ loads = {}
  /\ saves = {}
  /\ store \in InitialStores(auth)
  /\ out = {}
  /\ updLog = <<>>
  /\ applied = <<>>
  /\ nJoins = 0
  /\ sinceUpd = [r \in RoomIds |-> DebounceMs]
  /\ burstWrites = [r \in RoomIds |-> 0]
  /\ saveRes = [r \in RoomIds |-> "none"]
  /\ registered = {}
  /\ catches = <<>>

(* ------------------------ history helpers ------------------------------ *)
\* indices of updLog that belong to room r, and the last applied one
AppliedIn(r) == {i \in 1..Len(applied) : updLog[applied[i]].canvasId = r}
LastApplied(r) ==
  applied[CHOOSE i \in AppliedIn(r) : \A j \in AppliedIn(r) : j <= i]
ReceivedIn(r) == {n \in 1..Len(updLog) : updLog[n].canvasId = r}
LastReceived(r) == CHOOSE n \in ReceivedIn(r) : \A m \in ReceivedIn(r) : m <= n

(* ----------------------- admission middleware -------------------------- *)
\* the typeof test is left out: any truthy canvasId is admitted
AdmitsTruthy(a) == Truthy(a.canvasId)

\* setupMiddlewares: reject unless canvasId is a non-empty string
Admits(a) == Truthy(a.canvasId) /\ a.canvasId.t = "string"

setupMiddlewares(c) ==
  /\ Settled
  /\ sockSt[c] = "new"
  /\ sockSt' = [sockSt EXCEPT ![c] = IF Admits(auth[c]) THEN "open"
                                     ELSE "rejected"]
  /\ out' = {}
  /\ UNCHANGED <<auth, registered, catches, ioRooms, activeCanvases,
                 debounceTimers, timers, loads, saves, store, updLog, applied,
                 nJoins, sinceUpd, burstWrites, saveRes>>

(* --------------------------- join-canvas ------------------------------- *)
\* canvasState built from the result of findById (lines 117-130, 178-188)
LoadedCanvasState(canvasId) ==
  IF Has(store, canvasId)
    THEN [element |-> store[canvasId].element, users |-> <<>>]
    ELSE [element |-> <<>>, users |-> <<>>]

\* the filter of lines 139-141 is left out: the whole users map is listed
OtherUsersUnfiltered(users, sessionId) == users

\* users-joined payload: the entries whose sessionId differs from the joiner's
\* (the array of UserState values, each kept under the key it was stored at)
OtherUsers(users, sessionId) ==
  [k \in {x \in DOMAIN users : users[x].sessionId # sessionId} |-> users[k]]

\* lines 134-144: register the socket and answer it
RegisterUser(c, canvasState) ==
  [canvasState EXCEPT
     !.users = MapSet(@, c, [sessionId |-> SessionIdOf(c), cursors |-> <<>>])]

\* socket.emit("canvas-state", ...) of line 137 throws on a collection that
\* cannot be encoded; a packet for a socket that is not open is dropped
\* before it is encoded
CanvasStateThrows(c, canvasState) ==
  sockSt[c] = "open" /\ ~Encodable(canvasState.element)

\* socket.emit("users-joined", otherUsers) of line 142 encodes the cursors
\* that line 220 stored in the listed entries, and throws when one of them
\* cannot be encoded
UsersJoinedThrows(c, canvasState) ==
  /\ sockSt[c] = "open"
  /\ \E k \in DOMAIN OtherUsers(canvasState.users, SessionIdOf(c)) :
       OtherUsers(canvasState.users, SessionIdOf(c))[k].cursors
         \in Unencodable

\* lines 137-144 end in a throw
JoinThrows(c, canvasState) ==
  CanvasStateThrows(c, canvasState) \/ UsersJoinedThrows(c, canvasState)

\* io.to(canvasId).emit("canvas-state", ...) in place of socket.emit: the
\* collection is sent to every socket of the room
JoinAnswerStateToRoom(c, canvasState) ==
  LET cid == CanvasIdOf(c)
      sid == SessionIdOf(c)
  IN  IF CanvasStateThrows(c, canvasState) THEN {}
      ELSE {Msg(1, d, "canvas-state", c, cid, canvasState.element, <<>>, "",
                <<>>) : d \in ioRooms[cid] \cup {c}}
           \cup
           IF UsersJoinedThrows(c, canvasState) THEN {}
           ELSE SocketEmit(c, Msg(2, c, "users-joined", c, cid, <<>>,
                                  OtherUsers(canvasState.users, sid), "",
                                  <<>>))
                \cup {Msg(3, d, "user-joined", c, cid, <<>>, <<>>, sid,
                          <<>>) : d \in BroadcastTargets(c, cid)}

\* the emits of lines 137-144 up to the first one that throws: nothing when
\* line 137 throws, canvas-state alone when line 142 throws, else all three;
\* the room the socket joined at line 102 never lists the socket itself among
\* the targets of socket.to
JoinAnswer(c, canvasState) ==
  LET cid == CanvasIdOf(c)
      sid == SessionIdOf(c)
  IN  IF CanvasStateThrows(c, canvasState) THEN {}
      ELSE SocketEmit(c, Msg(1, c, "canvas-state", c, cid,
                             canvasState.element, <<>>, "", <<>>))
           \cup
           IF UsersJoinedThrows(c, canvasState) THEN {}
           ELSE SocketEmit(c, Msg(2, c, "users-joined", c, cid, <<>>,
                                  OtherUsers(canvasState.users, sid), "",
                                  <<>>))
                \cup {Msg(3, d, "user-joined", c, cid, <<>>, <<>>, sid,
                          <<>>) : d \in BroadcastTargets(c, cid)}

\* handleJoinCanvas up to its first suspension point (or to its end when the
\* canvas is resident, or to the throw of line 137 or 142, which leaves the
\* catch of the listener pending)
handleJoinCanvas(c) ==
  /\ sockSt[c] = "open"
  /\ Dispatches(c)
  /\ nJoins + Len(updLog) < MaxEvents
  /\ nJoins' = nJoins + 1
  /\ LET cid == CanvasIdOf(c) IN
     IF SessionIdOf(c) = ""
       THEN /\ out' = {}
            /\ UNCHANGED <<ioRooms, activeCanvases, loads, registered,
                           catches>>
       ELSE /\ ioRooms' = [ioRooms EXCEPT ![cid] = @ \cup {c}]
            /\ IF Has(activeCanvases, cid)
                 THEN LET cs == RegisterUser(c, activeCanvases[cid]) IN
                      /\ activeCanvases' = MapSet(activeCanvases, cid, cs)
                      /\ registered' = registered \cup {c}
                      /\ out' = JoinAnswer(c, cs)
                      /\ IF JoinThrows(c, cs)
                           THEN /\ Len(catches) < MaxPending
                                /\ catches' =
                                     Append(catches, Thrown(c, "join-canvas"))
                           ELSE UNCHANGED catches
                      /\ UNCHANGED loads
                 ELSE /\ loads' = loads \cup
                           {[op |-> "join", sock |-> c, canvasId |-> cid,
                             element |-> <<>>, n |-> nJoins + 1]}
                      /\ out' = {}
                      /\ UNCHANGED <<activeCanvases, registered, catches>>
  /\ UNCHANGED <<auth, sockSt, debounceTimers, timers, saves, store, updLog,
                 applied, sinceUpd, burstWrites, saveRes>>

\* the room a join has just loaded or created is scheduled for a save
handleJoinCanvasLoadedSaves(l) ==
  /\ Settled
  /\ l \in loads /\ l.op = "join"
  /\ loads' = loads \ {l}
  /\ LET cs == RegisterUser(l.sock, LoadedCanvasState(l.canvasId)) IN
     /\ activeCanvases' = MapSet(activeCanvases, l.canvasId, cs)
     /\ registered' = registered \cup {l.sock}
     /\ out' = JoinAnswer(l.sock, cs) \cup
                  IF JoinThrows(l.sock, cs)
                    THEN {Msg(Cardinality(JoinAnswer(l.sock, cs)) + 1, l.sock,
                              "join-error", l.sock, l.canvasId, <<>>, <<>>,
                              "", <<>>)}
                    ELSE {}
  /\ timers' = timers \cup
       {[id |-> 0, canvasId |-> l.canvasId, left |-> DebounceMs]}
  /\ debounceTimers' = MapSet(debounceTimers, l.canvasId, 0)
  /\ UNCHANGED <<auth, catches, sockSt, ioRooms, saves, store, updLog,
                 applied, nJoins, sinceUpd, burstWrites, saveRes>>

\* findById resolved: lines 117-144; when line 137 throws here, the catch of
\* the listener (line 61) runs in the same turn of the event loop (the users
\* map built at lines 117-130 lists the joiner alone, so line 142 has no
\* cursors to encode)
handleJoinCanvasLoaded(l) ==
  /\ Settled
  /\ l \in loads /\ l.op = "join"
  /\ loads' = loads \ {l}
  /\ LET cs == RegisterUser(l.sock, LoadedCanvasState(l.canvasId)) IN
     /\ activeCanvases' = MapSet(activeCanvases, l.canvasId, cs)
     /\ registered' = registered \cup {l.sock}
     /\ out' = JoinAnswer(l.sock, cs) \cup
                  IF JoinThrows(l.sock, cs)
                    THEN {Msg(Cardinality(JoinAnswer(l.sock, cs)) + 1, l.sock,
                              "join-error", l.sock, l.canvasId, <<>>, <<>>,
                              "", <<>>)}
                    ELSE {}
  /\ UNCHANGED <<auth, catches, sockSt, ioRooms, debounceTimers, timers,
                 saves, store, updLog, applied, nJoins, sinceUpd, burstWrites,
                 saveRes>>

\* the failing join leaves a phantom room behind
handleJoinCanvasLoadFailedPhantom(l) ==
  /\ Settled
  /\ l \in loads /\ l.op = "join"
  /\ loads' = loads \ {l}
  /\ activeCanvases' = MapSet(activeCanvases, l.canvasId,
                              [element |-> <<>>, users |-> <<>>])
  /\ out' = SocketEmit(l.sock, Msg(1, l.sock, "join-error", l.sock,
                                   l.canvasId, <<>>, <<>>, "", <<>>))
  /\ UNCHANGED <<auth, registered, catches, sockSt, ioRooms, debounceTimers,
                 timers, saves, store, updLog, applied, nJoins, sinceUpd,
                 burstWrites, saveRes>>

\* findById rejected: handleJoinCanvas throws, the listener's catch (lines
\* 56-62) emits join-error
handleJoinCanvasLoadFailed(l) ==
  /\ Settled
  /\ l \in loads /\ l.op = "join"
  /\ loads' = loads \ {l}
  /\ out' = SocketEmit(l.sock, Msg(1, l.sock, "join-error", l.sock,
                                   l.canvasId, <<>>, <<>>, "", <<>>))
  /\ UNCHANGED <<auth, registered, catches, sockSt, ioRooms, activeCanvases,
                 debounceTimers, timers, saves, store, updLog, applied,
                 nJoins, sinceUpd, burstWrites, saveRes>>

(* -------------------------- element-update ----------------------------- *)
\* clearTimeout(id): disarms the timer if it has not fired yet
ClearTimeout(ts, id) == {t \in ts : t.id # id}

\* scheduleDatabaseSave, synchronous part (lines 230-233, 254): the timers
\* and the debounceTimers map after arming timer n for canvasId
scheduleDatabaseSave(canvasId, n) ==
  (IF Has(debounceTimers, canvasId)
     THEN ClearTimeout(timers, debounceTimers[canvasId])
     ELSE timers)
  \cup {[id |-> n, canvasId |-> canvasId, left |-> DebounceMs]}

\* the update is applied and broadcast but no save is scheduled
ApplyUpdateNoSave(c, canvasId, cs, elements, n) ==
  /\ activeCanvases' =
       MapSet(activeCanvases, canvasId, [cs EXCEPT !.element = elements])
  /\ out' = IF Encodable(elements)
              THEN {Msg(1, d, "elements-updated", c, canvasId, elements,
                        <<>>, "", <<>>) :
                      d \in BroadcastTargets(c, canvasId)}
              ELSE {}
  /\ applied' = Append(applied, n)
  /\ sinceUpd' = [sinceUpd EXCEPT ![canvasId] = 0]
  /\ burstWrites' = [burstWrites EXCEPT ![canvasId] =
                       IF sinceUpd[canvasId] >= DebounceMs THEN 0 ELSE @]
  /\ UNCHANGED <<timers, debounceTimers>>

\* lines 203-205 on canvasState cs: replace, broadcast, schedule.  When the
\* broadcast of line 204 throws on a collection it cannot encode, line 205 is
\* not reached and the catch of the listener (lines 68-70) only logs
ApplyUpdate(c, canvasId, cs, elements, n) ==
  /\ activeCanvases' =
       MapSet(activeCanvases, canvasId, [cs EXCEPT !.element = elements])
  /\ IF Encodable(elements)
       THEN /\ out' = {Msg(1, d, "elements-updated", c, canvasId,
                           elements, <<>>, "", <<>>) :
                         d \in BroadcastTargets(c, canvasId)}
            /\ timers' = scheduleDatabaseSave(canvasId, n)
            /\ debounceTimers' = MapSet(debounceTimers, canvasId, n)
       ELSE /\ out' = {}
            /\ UNCHANGED <<timers, debounceTimers>>
  /\ applied' = Append(applied, n)
  /\ sinceUpd' = [sinceUpd EXCEPT ![canvasId] = 0]
  /\ burstWrites' = [burstWrites EXCEPT ![canvasId] =
                       IF sinceUpd[canvasId] >= DebounceMs THEN 0 ELSE @]

\* handleElementUpdate up to its first suspension point (or to its end)
handleElementUpdate(c, elements) ==
  /\ sockSt[c] = "open"
  /\ Dispatches(c)
  /\ nJoins + Len(updLog) < MaxEvents
  /\ LET cid == CanvasIdOf(c)
         n == Len(updLog) + 1
         rec == [sock |-> c, canvasId |-> cid, element |-> elements]
     IN
     IF Has(activeCanvases, cid)
       THEN /\ updLog' = Append(updLog, rec @@ [st |-> "applied"])
            /\ ApplyUpdate(c, cid, activeCanvases[cid], elements, n)
            /\ UNCHANGED loads
       ELSE /\ updLog' = Append(updLog, rec @@ [st |-> "loading"])
            /\ loads' = loads \cup
                 {[op |-> "update", sock |-> c, canvasId |-> cid,
                   element |-> elements, n |-> n]}
            /\ out' = {}
            /\ UNCHANGED <<activeCanvases, timers, debounceTimers, applied,
                           sinceUpd, burstWrites>>
  /\ UNCHANGED <<auth, registered, catches, sockSt, ioRooms, saves, store,
                 nJoins, saveRes>>

\* findById resolved inside handleElementUpdate: lines 178-189, 203-205
handleElementUpdateLoaded(l) ==
  /\ Settled
  /\ l \in loads /\ l.op = "update"
  /\ loads' = loads \ {l}
  /\ updLog' = [updLog EXCEPT ![l.n].st = "applied"]
  /\ ApplyUpdate(l.sock, l.canvasId, LoadedCanvasState(l.canvasId),
                 l.element, l.n)
  /\ UNCHANGED <<auth, registered, catches, sockSt, ioRooms, saves, store,
                 nJoins, saveRes>>

\* findById rejected inside handleElementUpdate: lines 190-193, the update
\* is given up
handleElementUpdateLoadFailed(l) ==
  /\ Settled
  /\ l \in loads /\ l.op = "update"
  /\ loads' = loads \ {l}
  /\ updLog' = [updLog EXCEPT ![l.n].st = "failed"]
  /\ out' = {}
  /\ UNCHANGED <<auth, registered, catches, sockSt, ioRooms, activeCanvases,
                 debounceTimers, timers, saves, store, applied, nJoins,
                 sinceUpd, burstWrites, saveRes>>

(* --------------------------- user-cursors ------------------------------ *)
\* users.set(socket.id, ...) in place of the update of an existing entry:
\* the cursor event registers a socket that has no entry
handleCursorPositionUpsert(c, cursorPosition) ==
  /\ sockSt[c] = "open"
  /\ Dispatches(c)
  /\ LET cid == CanvasIdOf(c)
         sid == SessionIdOf(c)
     IN
     IF sid = "" \/ ~Has(activeCanvases, cid)
       THEN /\ out' = {}
            /\ UNCHANGED <<activeCanvases, catches>>
       ELSE /\ activeCanvases' =
                 [activeCanvases EXCEPT
                    ![cid].users = MapSet(@, c, [sessionId |-> sid,
                                                 cursors |-> cursorPosition])]
            /\ IF cursorPosition \in Unencodable
                 THEN /\ Len(catches) < MaxPending
                      /\ catches' =
                           Append(catches, Thrown(c, "user-cursors"))
                      /\ out' = {}
                 ELSE /\ out' = {Msg(1, d, "user-cursors", c, cid, <<>>, <<>>,
                                     sid, cursorPosition) :
                                   d \in BroadcastTargets(c, cid)}
                      /\ UNCHANGED catches
  /\ UNCHANGED <<auth, registered, sockSt, ioRooms, debounceTimers, timers,
                 loads, saves, store, updLog, applied, nJoins, sinceUpd,
                 burstWrites, saveRes>>

\* handleCursorPosition (lines 207-227): when the broadcast of line 223
\* throws, after the cursor write of line 220, the catch of the listener (line
\* 79) is left pending
handleCursorPosition(c, cursorPosition) ==
  /\ sockSt[c] = "open"
  /\ Dispatches(c)
  /\ LET cid == CanvasIdOf(c)
         sid == SessionIdOf(c)
     IN
     IF sid = "" \/ ~Has(activeCanvases, cid)
       THEN /\ out' = {}
            /\ UNCHANGED <<activeCanvases, catches>>
       ELSE /\ activeCanvases' =
                 IF Has(activeCanvases[cid].users, c)
                   THEN [activeCanvases EXCEPT
                           ![cid].users[c].cursors = cursorPosition]
                   ELSE activeCanvases
            /\ IF cursorPosition \in Unencodable
                 THEN /\ Len(catches) < MaxPending
                      /\ catches' =
                           Append(catches, Thrown(c, "user-cursors"))
                      /\ out' = {}
                 ELSE /\ out' = {Msg(1, d, "user-cursors", c, cid, <<>>, <<>>,
                                     sid, cursorPosition) :
                                   d \in BroadcastTargets(c, cid)}
                      /\ UNCHANGED catches
  /\ UNCHANGED <<auth, registered, sockSt, ioRooms, debounceTimers, timers,
                 loads, saves, store, updLog, applied, nJoins, sinceUpd,
                 burstWrites, saveRes>>

\* the catch clauses of the listeners whose handlers threw run one after the
\* other, no event being dispatched in between: each emits join-error (line
\* 61) or the event named "error handling multiple cursors" (line 79) to its
\* socket
listenerCatch ==
  /\ catches # <<>>
  /\ out' = UNION {SocketEmit(catches[i].sock,
                              Msg(i, catches[i].sock, CatchEvent(catches[i].on),
                                  catches[i].sock, CanvasIdOf(catches[i].sock),
                                  <<>>, <<>>, "", <<>>)) :
                     i \in DOMAIN catches}
  /\ catches' = <<>>
  /\ UNCHANGED <<auth, registered, sockSt, ioRooms, activeCanvases,
                 debounceTimers, timers, loads, saves, store, updLog, applied,
                 nJoins, sinceUpd, burstWrites, saveRes>>

(* ---------------------------- disconnect ------------------------------- *)
\* socket.io takes the socket out of its rooms before the disconnect
\* listener (handleLeaveCanvas) runs
handleLeaveCanvas(c) ==
  /\ sockSt[c] = "open"
  /\ Dispatches(c)
  /\ sockSt' = [sockSt EXCEPT ![c] = "closed"]
  /\ ioRooms' = [r \in RoomIds |-> ioRooms[r] \ {c}]
  /\ LET cid == CanvasIdOf(c)
         sid == SessionIdOf(c)
     IN
     IF sid = "" \/ ~Has(activeCanvases, cid)
       THEN /\ out' = {}
            /\ UNCHANGED activeCanvases
       ELSE /\ activeCanvases' =
                 [activeCanvases EXCEPT ![cid].users = MapDelete(@, c)]
            /\ out' = {Msg(1, d, "user-left", c, cid, <<>>, <<>>, sid, <<>>) :
                         d \in BroadcastTargets(c, cid)}
  /\ UNCHANGED <<auth, registered, catches, debounceTimers, timers, loads,
                 saves, store, updLog, applied, nJoins, sinceUpd, burstWrites,
                 saveRes>>

(* ------------------------ persistence scheduler ------------------------ *)
\* TickMs milliseconds pass; a timer that is due runs before time moves on
Tick ==
  /\ Settled
  /\ \A t \in timers : t.left > 0
  /\ \/ timers # {}
     \/ \E r \in RoomIds : sinceUpd[r] < DebounceMs
  /\ timers' = {[t EXCEPT !.left = Max(0, @ - TickMs)] : t \in timers}
  /\ sinceUpd' = [r \in RoomIds |-> Min(DebounceMs, sinceUpd[r] + TickMs)]
  /\ out' = {}
  /\ UNCHANGED <<auth, registered, catches, sockSt, ioRooms, activeCanvases,
                 debounceTimers, loads, saves, store, updLog, applied, nJoins,
                 burstWrites, saveRes>>

\* the setTimeout callback up to its await (lines 235-246), or to its end
\* when the canvas is not resident (line 252); `want' is history: the payload
\* of the room's last applied update when the write was issued
saveTimerFired(t) ==
  /\ Settled
  /\ t \in timers /\ t.left = 0
  /\ timers' = timers \ {t}
  /\ out' = {}
  /\ IF Has(activeCanvases, t.canvasId)
       THEN /\ saves' = saves \cup
                 {[id |-> t.id, canvasId |-> t.canvasId,
                   element |-> activeCanvases[t.canvasId].element,
                   want |-> updLog[LastApplied(t.canvasId)].element]}
            /\ burstWrites' = [burstWrites EXCEPT ![t.canvasId] = @ + 1]
            /\ UNCHANGED debounceTimers
       ELSE /\ debounceTimers' = MapDelete(debounceTimers, t.canvasId)
            /\ UNCHANGED <<saves, burstWrites>>
  /\ UNCHANGED <<auth, registered, catches, sockSt, ioRooms, activeCanvases,
                 loads, store, updLog, applied, nJoins, sinceUpd, saveRes>>

\* findByIdAndUpdate with upsert resolved (lines 247, 252)
SaveDone(w) ==
  /\ Settled
  /\ w \in saves
  /\ saves' = saves \ {w}
  /\ store' = MapSet(store, w.canvasId, [element |-> w.element])
  /\ debounceTimers' = MapDelete(debounceTimers, w.canvasId)
  /\ saveRes' = [saveRes EXCEPT ![w.canvasId] = "ok"]
  /\ out' = {}
  /\ UNCHANGED <<auth, registered, catches, sockSt, ioRooms, activeCanvases,
                 timers, loads, updLog, applied, nJoins, sinceUpd,
                 burstWrites>>

\* the failed write is retried: the catch re-arms the room's timer
SaveFailedRetry(w) ==
  /\ Settled
  /\ w \in saves
  /\ saves' = saves \ {w}
  /\ timers' = timers \cup
       {[id |-> w.id, canvasId |-> w.canvasId, left |-> DebounceMs]}
  /\ debounceTimers' = MapSet(debounceTimers, w.canvasId, w.id)
  /\ saveRes' = [saveRes EXCEPT ![w.canvasId] = "failed"]
  /\ out' = {}
  /\ UNCHANGED <<auth, registered, catches, sockSt, ioRooms, activeCanvases,
                 loads, store, updLog, applied, nJoins, sinceUpd,
                 burstWrites>>

\* findByIdAndUpdate rejected (lines 248-252)
SaveFailed(w) ==
  /\ Settled
  /\ w \in saves
  /\ saves' = saves \ {w}
  /\ debounceTimers' = MapDelete(debounceTimers, w.canvasId)
  /\ saveRes' = [saveRes EXCEPT ![w.canvasId] = "failed"]
  /\ out' = {}
  /\ UNCHANGED <<auth, registered, catches, sockSt, ioRooms, activeCanvases,
                 timers, loads, store, updLog, applied, nJoins, sinceUpd,
                 burstWrites>>

(* --------------------------- specification ----------------------------- *)
Next ==
  \/ \E c \in Conns : setupMiddlewares(c)
  \/ \E c \in Conns : handleJoinCanvas(c)
  \/ \E l \in loads : handleJoinCanvasLoaded(l)
  \/ \E l \in loads : handleJoinCanvasLoadFailed(l)
  \/ \E c \in Conns, e \in ElementPayloads(Len(updLog) + 1) :
       handleElementUpdate(c, e)
  \/ \E l \in loads : handleElementUpdateLoaded(l)
  \/ \E l \in loads : handleElementUpdateLoadFailed(l)
  \/ \E c \in Conns, p \in CursorPayloads : handleCursorPosition(c, p)
  \/ listenerCatch
  \/ \E c \in Conns : handleLeaveCanvas(c)
  \/ Tick
  \/ \E t \in timers : saveTimerFired(t)
  \/ \E w \in saves : SaveDone(w)
  \/ \E w \in saves : SaveFailed(w)

Spec == Init /\ [][Next]_vars

\* the store answers every read and every write, with a result or an error,
\* and the runtime runs every timer that is due
StoreResponds ==
  \/ \E l \in loads : handleJoinCanvasLoaded(l)
  \/ \E l \in loads : handleJoinCanvasLoadFailed(l)
  \/ \E l \in loads : handleElementUpdateLoaded(l)
  \/ \E l \in loads : handleElementUpdateLoadFailed(l)
  \/ \E w \in saves : SaveDone(w)
  \/ \E w \in saves : SaveFailed(w)

TimerRuns == Tick \/ \E t \in timers : saveTimerFired(t)

FairSpec ==
  /\ Spec
  /\ SF_vars(StoreResponds)
  /\ SF_vars(TimerRuns)
  /\ WF_vars(listenerCatch)

(* ------------------------------ claims --------------------------------- *)

\* the step runs a pending catch clause of the listener of event `on'
CatchOf(on) ==
  /\ \E i \in DOMAIN catches : catches[i].on = on
  /\ listenerCatch

\* C1: the socket whose element-update or cursor event is being handled is
\* never a recipient of the elements-updated / user-cursors broadcast it
\* causes, whether or not it joined and whoever shares its sessionId.
C1_SenderNeverRecipient ==
  \A m \in out :
    m.ev \in {"elements-updated", "user-cursors"} => m.to # m.src

\* a broadcast reaches a socket that shares the sender's sessionId while the
\* sender itself sits in the socket.io room
C1_Witness ==
  \E m \in out :
    /\ m.ev \in {"elements-updated", "user-cursors"}
    /\ m.src \in ioRooms[m.canvasId]
    /\ m.to # m.src
    /\ SessionIdOf(m.to) = SessionIdOf(m.src)

\* room r is at rest: no timer armed, no write and no read in flight
Quiescent(r) ==
  /\ \A t \in timers : t.canvasId # r
  /\ \A w \in saves : w.canvasId # r
  /\ \A l \in loads : l.canvasId # r

\* C2: once the last scheduled save of a room has completed successfully, the
\* stored collection equals the payload of the last element-update received
\* for the room (stated for runs in which every received update was applied).
C2_StoreEqualsLastUpdate ==
  \A r \in RoomIds :
    ( /\ ReceivedIn(r) # {}
      /\ \A n \in ReceivedIn(r) : updLog[n].st = "applied"
      /\ Quiescent(r)
      /\ saveRes[r] = "ok" )
    => /\ Has(store, r)
       /\ store[r].element = updLog[LastReceived(r)].element

\* C3: a burst of updates (gaps below the debounce delay) causes at most one
\* write, and a write carries the payload of the last update of the burst
\* (stated for runs without any join-canvas, where no join load interferes).
C3_OneWritePerBurst ==
  nJoins = 0 =>
    /\ \A r \in RoomIds : burstWrites[r] <= 1
    /\ \A w \in saves : w.element = w.want

\* C4: a first joiner of a room without in-memory entry and without document
\* gets an empty collection and an empty list; a joiner whose load completes
\* when another, still connected joiner with a different sessionId is
\* already registered gets a list containing exactly that joiner.
C4_ConcurrentJoinersSeeEachOther ==
  [][\A l \in loads :
       handleJoinCanvasLoaded(l) =>
         LET r == l.canvasId
             mine == {m \in out' : m.ev = "users-joined" /\ m.to = l.sock}
             state == {m \in out' : m.ev = "canvas-state" /\ m.to = l.sock}
             others == IF Has(activeCanvases, r)
                         THEN {d \in DOMAIN activeCanvases[r].users :
                                 /\ d # l.sock
                                 /\ sockSt[d] = "open"
                                 /\ SessionIdOf(d) # SessionIdOf(l.sock)}
                         ELSE {}
         IN  /\ (~Has(activeCanvases, r) /\ ~Has(store, r)) =>
                  /\ \A m \in state : m.element = <<>>
                  /\ \A m \in mine : DOMAIN m.users = {}
             /\ \A m \in mine : DOMAIN m.users = others]_vars

\* C5: every entry of a participant map belongs to a socket that is still
\* connected.
C5_NoStaleParticipant ==
  \A r \in DOMAIN activeCanvases :
    \A c \in DOMAIN activeCanvases[r].users : sockSt[c] = "open"

\* C6: the element collection of a resident room changes only by being set
\* to the payload of the element-update applied in that step.
C6_ResidentElementsOnlyByUpdate ==
  [][\A r \in DOMAIN activeCanvases :
       activeCanvases'[r].element # activeCanvases[r].element =>
         /\ Len(applied') = Len(applied) + 1
         /\ updLog'[applied'[Len(applied')]].canvasId = r
         /\ activeCanvases'[r].element =
              updLog'[applied'[Len(applied')]].element]_vars

\* C8: canvas-state carries the payload of the most recently applied
\* element-update of the room, and elements-updated carries the sender's
\* payload unchanged.
C8_JoinerGetsCurrentElements ==
  \A m \in out :
    /\ (m.ev = "canvas-state" /\ AppliedIn(m.canvasId) # {}) =>
         m.element = updLog[LastApplied(m.canvasId)].element
    /\ m.ev = "elements-updated" =>
         m.element = updLog[applied[Len(applied)]].element

\* C9: the element-updates of one socket are applied in the order in which
\* the server received them.
C9_PerConnectionOrder ==
  \A i, j \in 1..Len(applied) :
    ( /\ i < j
      /\ updLog[applied[i]].sock = updLog[applied[j]].sock
      /\ updLog[applied[i]].canvasId = updLog[applied[j]].canvasId )
    => applied[i] < applied[j]

\* C7: a failed read of a join sends join-error to the joining socket and
\* nothing else, leaves the room map (hence every participant map) as it
\* was, and a join that finds the room absent issues a read of its own.
C7_ReadFailureLeavesNoRoom ==
  [][/\ \A l \in loads :
          handleJoinCanvasLoadFailed(l) =>
            /\ activeCanvases' = activeCanvases
            /\ \A m \in out' : m.ev = "join-error" /\ m.to = l.sock
            /\ sockSt[l.sock] = "open" => out' # {}
     /\ \A c \in Conns :
          ( /\ handleJoinCanvas(c)
            /\ SessionIdOf(c) # ""
            /\ ~Has(activeCanvases, CanvasIdOf(c)) )
          => \E l \in loads' \ loads :
               l.op = "join" /\ l.sock = c /\ l.canvasId = CanvasIdOf(c)]_vars

\* join-error has just been sent for a room that another join of the same
\* socket already waits to load again, and the room has no entry
C7_Witness ==
  \E m \in out :
    /\ m.ev = "join-error"
    /\ ~Has(activeCanvases, m.canvasId)
    /\ \E l \in loads : l.op = "join" /\ l.canvasId = m.canvasId

\* C10 as stated: no received element-update is given up without being
\* applied.
C10_NoUpdateDropped ==
  \A n \in 1..Len(updLog) : updLog[n].st # "failed"

\* update n is applied in this step
BecomesApplied(n) ==
  /\ updLog'[n].st = "applied"
  /\ n > Len(updLog) \/ updLog[n].st = "loading"

BecomesFailed(n) ==
  /\ n <= Len(updLog)
  /\ updLog'[n].st = "failed"
  /\ updLog[n].st = "loading"

\* C10 amended: every received element-update is eventually applied or its
\* lazy-load read fails (time and again no received update is left waiting
\* for its read); an applied update replaces the collection; when its
\* payload can be encoded it is broadcast to the other sockets of the room
\* and arms the room's save timer, when it cannot it is sent to nobody and
\* no timer is armed or cancelled; an update whose read fails changes nothing
\* and sends nothing.
C10_AppliedUnlessLoadOrEncodingFails ==
  /\ []<>(\A n \in 1..Len(updLog) : updLog[n].st \in {"applied", "failed"})
  /\ [][\A n \in 1..Len(updLog') :
          /\ BecomesApplied(n) =>
               LET u == updLog'[n] IN
               /\ Has(activeCanvases', u.canvasId)
               /\ activeCanvases'[u.canvasId].element = u.element
               /\ Encodable(u.element) =>
                    /\ {m.to : m \in out'} = ioRooms[u.canvasId] \ {u.sock}
                    /\ \A m \in out' :
                         m.ev = "elements-updated" /\ m.element = u.element
                    /\ Has(debounceTimers', u.canvasId)
                    /\ debounceTimers'[u.canvasId] = n
                    /\ [id |-> n, canvasId |-> u.canvasId,
                        left |-> DebounceMs] \in timers'
               /\ ~Encodable(u.element) =>
                    /\ out' = {}
                    /\ timers' = timers
                    /\ debounceTimers' = debounceTimers
          /\ BecomesFailed(n) =>
               /\ activeCanvases' = activeCanvases
               /\ timers' = timers /\ debounceTimers' = debounceTimers
               /\ out' = {}]_vars

\* an update whose payload cannot be encoded was applied and armed no timer,
\* and the next one has just been applied, broadcast and scheduled
C10_Witness ==
  \E n, k \in 1..Len(updLog) :
    /\ updLog[n].st = "applied" /\ ~Encodable(updLog[n].element)
    /\ updLog[k].st = "applied" /\ Encodable(updLog[k].element)
    /\ updLog[k].canvasId = updLog[n].canvasId
    /\ applied = <<n, k>>
    /\ timers = {[id |-> k, canvasId |-> updLog[k].canvasId,
                  left |-> DebounceMs]}
    /\ \E m \in out :
         m.ev = "elements-updated" /\ m.element = updLog[k].element

\* C11: a room never has more than one save timer armed, and debounceTimers
\* has an entry for the room exactly while a timer of the room is armed or a
\* write of the room is awaiting the store; this includes the states reached
\* when an update arrives while a fired timer's write is still in flight.
C11_OneTimerPerRoom ==
  \A r \in RoomIds :
    /\ Cardinality({t \in timers : t.canvasId = r}) <= 1
    /\ Has(debounceTimers, r) <=>
         \/ \E t \in timers : t.canvasId = r
         \/ \E w \in saves : w.canvasId = r

\* C12 (as stated): when a scheduled write fails, the in-memory rooms (element
\* collections and users maps) are unchanged, no event is emitted, the room's
\* debounceTimers entry is cleared, and no further write is issued for the
\* room until a new element-update arrives: the failure leaves no timer of
\* the room armed (an armed timer issues a write when it fires, whether or
\* not another update arrives).
C12_FailedWriteStopsWrites ==
  [][\A w \in saves :
       SaveFailed(w) =>
         /\ activeCanvases' = activeCanvases
         /\ out' = {}
         /\ ~Has(debounceTimers', w.canvasId)
         /\ \A t \in timers' : t.canvasId # w.canvasId]_vars

\* C12 amended: a failed write changes no in-memory room, emits nothing,
\* clears the room's debounceTimers entry and is not retried: the failure
\* arms no timer and issues no write, every timer is armed by the application
\* of an element-update, and every write is issued by such a timer firing (a
\* timer armed by an update that arrived while the failed write was in flight
\* stays armed and issues its write).
C12_FailedWriteNotRetried ==
  [][/\ \A w \in saves :
          SaveFailed(w) =>
            /\ activeCanvases' = activeCanvases
            /\ out' = {}
            /\ ~Has(debounceTimers', w.canvasId)
            /\ timers' = timers
            /\ saves' = saves \ {w}
            /\ store' = store
     /\ \A t \in timers' :
          (\A u \in timers : u.id # t.id) =>
            BecomesApplied(t.id) /\ updLog'[t.id].canvasId = t.canvasId
     /\ \A v \in saves' \ saves :
          \E t \in timers \ timers' :
            t.id = v.id /\ t.canvasId = v.canvasId /\ t.left = 0]_vars

\* a write of a room has failed while a timer armed by an update that arrived
\* during the write is still pending, the room's map entry being cleared
C12_Witness ==
  \E r \in RoomIds :
    /\ saveRes[r] = "failed"
    /\ Has(activeCanvases, r)
    /\ ~Has(debounceTimers, r)
    /\ \A w \in saves : w.canvasId # r
    /\ \E t \in timers : t.canvasId = r /\ t.id = Len(updLog)
    /\ out = {}

\* C13: handling a user-cursors event (the handler, and the catch clause of
\* its listener when the handler threw) changes at most the cursors field of
\* the issuing socket's own users entry: every room's element collection,
\* every other entry, the key set of every users map, the set of rooms, the
\* save timers and the debounceTimers map are unchanged, and no store read
\* or write is started or completed.
C13_CursorFrame ==
  [][/\ \A c \in Conns, p \in CursorPayloads :
          handleCursorPosition(c, p) =>
            /\ DOMAIN activeCanvases' = DOMAIN activeCanvases
            /\ \A r \in DOMAIN activeCanvases :
                 LET old == activeCanvases[r]
                     new == activeCanvases'[r]
                 IN  /\ new.element = old.element
                     /\ DOMAIN new.users = DOMAIN old.users
                     /\ \A d \in DOMAIN old.users :
                          /\ new.users[d].sessionId = old.users[d].sessionId
                          /\ (d # c \/ r # CanvasIdOf(c)) =>
                               new.users[d] = old.users[d]
            /\ timers' = timers
            /\ debounceTimers' = debounceTimers
            /\ loads' = loads
            /\ saves' = saves
            /\ store' = store
     /\ CatchOf("user-cursors") =>
          /\ activeCanvases' = activeCanvases
          /\ timers' = timers
          /\ debounceTimers' = debounceTimers
          /\ loads' = loads
          /\ saves' = saves
          /\ store' = store]_vars

\* a cursor event of a registered socket has been handled while a save timer
\* of its room is armed: its entry holds the position, the event went out
C13_Witness ==
  \E c \in Conns :
    LET r == CanvasIdOf(c) IN
    /\ Has(activeCanvases, r)
    /\ Has(activeCanvases[r].users, c)
    /\ activeCanvases[r].users[c].cursors \in Positions
    /\ activeCanvases[r].element # <<>>
    /\ \E t \in timers : t.canvasId = r
    /\ \E m \in out : m.ev = "user-cursors" /\ m.src = c

\* C14: a connection whose handshake carries no canvasId, or one that is not a
\* non-empty string, is rejected by the middleware: it never becomes open, so
\* none of its events reaches a handler, and it is never in a socket.io room,
\* never has a users entry, never has a store read or a catch clause pending,
\* never has an element-update received, and no event is ever emitted by or to
\* it.
C14_RejectedAtAdmission ==
  \A c \in Conns :
    LET id == auth[c].canvasId IN
    (id.t # "string" \/ id.v = "") =>
      /\ sockSt[c] \in {"new", "rejected"}
      /\ \A r \in RoomIds : c \notin ioRooms[r]
      /\ \A r \in DOMAIN activeCanvases : ~Has(activeCanvases[r].users, c)
      /\ \A l \in loads : l.sock # c
      /\ \A i \in DOMAIN catches : catches[i].sock # c
      /\ \A n \in 1..Len(updLog) : updLog[n].sock # c
      /\ \A m \in out : m.src # c /\ m.to # c

\* a connection has been rejected while the other one joined its room and
\* had an update applied
C14_Witness ==
  \E c \in Conns :
    /\ ~(auth[c].canvasId.t = "string" /\ auth[c].canvasId.v # "")
    /\ sockSt[c] = "rejected"
    /\ \E r \in DOMAIN activeCanvases : activeCanvases[r].users # <<>>
    /\ \E t \in timers : t.id >= 1

\* C15: in every reachable state no element id occurs twice in the element
\* collection of a resident room, whatever payloads the element-update
\* handler accepted.
C15_ElementIdsUnique ==
  \A r \in DOMAIN activeCanvases :
    LET e == activeCanvases[r].element IN
    \A i, j \in 1..Len(e) : i # j => e[i] # e[j]

\* what C16 speaks of for room r: its in-memory entry (element collection
\* and users map), its debounceTimers entry and its armed timers
RoomView(r) ==
  << IF Has(activeCanvases, r) THEN <<activeCanvases[r]>> ELSE <<>>,
     IF Has(debounceTimers, r) THEN <<debounceTimers[r]>> ELSE <<>>,
     {t \in timers : t.canvasId = r} >>

\* the step handles an event of room r: an event of a socket admitted to r (its
\* handler, or the catch clause of its listener), the outcome of a store read
\* or write issued for r, or a timer of r firing
HandlesFor(r) ==
  \/ \E c \in Conns :
       /\ CanvasIdOf(c) = r
       /\ \/ handleJoinCanvas(c)
          \/ \E e \in ElementPayloads(Len(updLog) + 1) :
               handleElementUpdate(c, e)
          \/ \E p \in CursorPayloads : handleCursorPosition(c, p)
          \/ handleLeaveCanvas(c)
          \/ /\ catches # <<>>
             /\ Head(catches).sock = c
             /\ listenerCatch
  \/ \E l \in loads :
       /\ l.canvasId = r
       /\ \/ handleJoinCanvasLoaded(l)
          \/ handleJoinCanvasLoadFailed(l)
          \/ handleElementUpdateLoaded(l)
          \/ handleElementUpdateLoadFailed(l)
  \/ \E t \in timers : t.canvasId = r /\ saveTimerFired(t)
  \/ \E w \in saves : w.canvasId = r /\ (SaveDone(w) \/ SaveFailed(w))

\* C16: a step that handles an event of room r1, a failed load or a failed
\* save of r1 included, leaves the element collection, the users map, the
\* debounceTimers entry and the armed timers of every other room r2 as they
\* were and emits no event to a socket admitted to r2.
C16_OtherRoomsUntouched ==
  [][\A r1, r2 \in RoomIds :
       (r1 # r2 /\ HandlesFor(r1)) =>
         /\ RoomView(r2)' = RoomView(r2)
         /\ \A m \in out' : CanvasIdOf(m.to) # r2]_vars

\* both rooms are resident with a registered socket each, a timer of one of
\* them is armed, and the last step answered a socket of the other one
C16_Witness ==
  \E r1, r2 \in RoomIds :
    /\ r1 # r2
    /\ Has(activeCanvases, r1) /\ activeCanvases[r1].users # <<>>
    /\ Has(activeCanvases, r2) /\ activeCanvases[r2].users # <<>>
    /\ \E t \in timers : t.canvasId = r2
    /\ \E m \in out : m.canvasId = r1 /\ CanvasIdOf(m.to) = r1

\* C17: no step that handles an element-update or a user-cursors event (the
\* handler itself, the continuation after the lazy load succeeded or failed, or
\* the catch clause of the listener) emits an error event to the socket that
\* sent the event, whether the room is resident or absent.
C17_NoErrorToSender ==
  [][/\ \A c \in Conns :
          (\/ \E e \in ElementPayloads(Len(updLog) + 1) :
                handleElementUpdate(c, e)
           \/ \E p \in CursorPayloads : handleCursorPosition(c, p)) =>
            \A m \in out' : m.to = c => m.ev \in RegularEvents
     /\ \A l \in loads :
          (handleElementUpdateLoaded(l) \/ handleElementUpdateLoadFailed(l)) =>
            \A m \in out' : m.to = l.sock => m.ev \in RegularEvents
     /\ CatchOf("user-cursors") =>
          \A m \in out' : m.ev # CatchEvent("user-cursors")]_vars

\* the step completes a join of socket c successfully: the synchronous path
\* through a resident room, or the continuation of c's lazy load, reaches the
\* end of handleJoinCanvas without throwing
JoinCompletes(c) ==
  /\ \/ /\ handleJoinCanvas(c)
        /\ SessionIdOf(c) # ""
        /\ Has(activeCanvases, CanvasIdOf(c))
     \/ \E l \in loads : l.sock = c /\ handleJoinCanvasLoaded(l)
  /\ ~JoinThrows(c, activeCanvases'[CanvasIdOf(c)])

\* C18: a step that completes a join successfully emits canvas-state and
\* users-joined to the joining socket only (both when it is still connected),
\* and user-joined, carrying the joiner's sessionId, to every other connected
\* socket that has an entry in the room's users map before or after the step,
\* and never to the joiner; it emits nothing else.
C18_JoinRecipients ==
  [][\A c \in Conns :
       JoinCompletes(c) =>
         LET r == CanvasIdOf(c)
             hasEntry(d) ==
               \/ Has(activeCanvases'[r].users, d)
               \/ Has(activeCanvases, r) /\ Has(activeCanvases[r].users, d)
         IN
         /\ \A m \in out' :
              /\ m.ev \in {"canvas-state", "users-joined", "user-joined"}
              /\ m.ev \in {"canvas-state", "users-joined"} => m.to = c
              /\ m.ev = "user-joined" => m.to # c
         /\ sockSt[c] = "open" =>
              \A ev \in {"canvas-state", "users-joined"} :
                \E m \in out' : m.ev = ev /\ m.to = c
         /\ \A d \in Conns \ {c} :
              (sockSt[d] = "open" /\ hasEntry(d)) =>
                \E m \in out' : /\ m.ev = "user-joined"
                                /\ m.to = d
                                /\ m.sessionId = SessionIdOf(c)]_vars

\* a join has just been answered in a room where another connected socket is
\* registered: the joiner got the state and the list, the other the notice
C18_Witness ==
  \E c, d \in Conns :
    LET r == CanvasIdOf(c) IN
    /\ c # d
    /\ sockSt[c] = "open" /\ sockSt[d] = "open"
    /\ Has(activeCanvases, r)
    /\ Has(activeCanvases[r].users, c) /\ Has(activeCanvases[r].users, d)
    /\ \E m \in out : m.ev = "canvas-state" /\ m.to = c
    /\ \E m \in out : m.ev = "users-joined" /\ m.to = c
    /\ \E m \in out : m.ev = "user-joined" /\ m.to = d /\ m.src = c
    /\ \A m \in out : m.to = d => m.ev = "user-joined"

\* C19: the list sent with users-joined holds exactly the entries of the
\* room's users map whose sessionId differs from the joiner's, so neither
\* the joiner's own entry nor an entry of another socket with the same
\* sessionId is in it; entries are stored per socket, each with the
\* sessionId of its own socket, so two sockets with one sessionId have two
\* entries.
C19_ParticipantsList ==
  /\ \A m \in out :
       m.ev = "users-joined" =>
         LET users == activeCanvases[m.canvasId].users
             sid == SessionIdOf(m.to)
         IN  /\ DOMAIN m.users = {d \in DOMAIN users : SessionIdOf(d) # sid}
             /\ \A d \in DOMAIN m.users : m.users[d] = users[d]
             /\ m.to \notin DOMAIN m.users
  /\ \A r \in DOMAIN activeCanvases :
       \A d \in DOMAIN activeCanvases[r].users :
         activeCanvases[r].users[d].sessionId = SessionIdOf(d)

\* two sockets with the same sessionId hold two entries of one room, and the
\* one that joined last was sent an empty list
C19_Witness ==
  \E c, d \in Conns :
    LET r == CanvasIdOf(c) IN
    /\ c # d
    /\ SessionIdOf(c) = SessionIdOf(d)
    /\ Has(activeCanvases, r)
    /\ DOMAIN activeCanvases[r].users = {c, d}
    /\ \E m \in out : m.ev = "users-joined" /\ m.to = c /\ m.users = <<>>

\* C20: the disconnect of socket c removes at most the users entry stored
\* under c (and does remove it), leaves every other entry and every element
\* collection as they were, and emits user-left with c's sessionId only to
\* other sockets, never an error event, reaching every connected socket that
\* remains registered in the room; when the room is not resident or holds no
\* entry for c the disconnect is a no-op: the rooms are unchanged and no
\* event is emitted; and no step ever removes a room: a resident room stays
\* resident, also with no users.
C20_LeaveNoOpWhenAbsent ==
  [][/\ \A c \in Conns :
          handleLeaveCanvas(c) =>
            LET r == CanvasIdOf(c) IN
            /\ \A q \in DOMAIN activeCanvases :
                 /\ Has(activeCanvases', q)
                 /\ activeCanvases'[q].element = activeCanvases[q].element
                 /\ DOMAIN activeCanvases'[q].users =
                      DOMAIN activeCanvases[q].users \
                        (IF q = r THEN {c} ELSE {})
                 /\ \A d \in DOMAIN activeCanvases'[q].users :
                      activeCanvases'[q].users[d] = activeCanvases[q].users[d]
            /\ (~Has(activeCanvases, r) \/ ~Has(activeCanvases[r].users, c))
                 => /\ activeCanvases' = activeCanvases
                    /\ out' = {}
            /\ \A m \in out' :
                 m.ev = "user-left" /\ m.to # c /\ m.sessionId = SessionIdOf(c)
            /\ (Has(activeCanvases, r) /\ Has(activeCanvases[r].users, c)) =>
                 \A d \in DOMAIN activeCanvases'[r].users :
                   sockSt[d] = "open" =>
                     \E m \in out' : m.to = d /\ m.ev = "user-left"
     /\ DOMAIN activeCanvases \subseteq DOMAIN activeCanvases']_vars

\* the timer of room r fires and issues a write in this step
WriteIssued(r) ==
  \E t \in timers :
    /\ t.canvasId = r
    /\ saveTimerFired(t)
    /\ saves' # saves

\* C21: with timers that run and a store that responds, once a save timer
\* of a room is armed a write of the room is eventually issued, and a
\* debounceTimers entry of the room is eventually deleted again; a write
\* carries the element collection the room holds when the timer fires; and no
\* write is issued for a room less than DebounceMs after the last update
\* applied to it (a stream of updates that are closer than the delay to each
\* other defers the write).
C21_TrailingDebounce ==
  /\ \A r \in RoomIds :
       (\E t \in timers : t.canvasId = r) ~> (\E w \in saves : w.canvasId = r)
  /\ \A r \in RoomIds : Has(debounceTimers, r) ~> ~Has(debounceTimers, r)
  /\ [][\A r \in RoomIds :
          WriteIssued(r) =>
            /\ \A w \in saves' \ saves :
                 /\ w.canvasId = r
                 /\ w.element = activeCanvases[r].element
            /\ sinceUpd[r] >= DebounceMs]_vars

\* C22: an entry of a users map disappears only in the step that handles the
\* disconnect of the socket it is stored under: no other step (a join, an
\* element-update or its lazy load, a cursor event, a timer or a write)
\* removes or discards an entry, in particular not the entry of a socket
\* that is still connected.
C22_EntryRemovedOnlyByOwnLeave ==
  [][\A r \in DOMAIN activeCanvases :
       \A d \in DOMAIN activeCanvases[r].users :
         (~Has(activeCanvases', r) \/ ~Has(activeCanvases'[r].users, d)) =>
           /\ handleLeaveCanvas(d)
           /\ sockSt'[d] # "open"]_vars

\* the events a handler broadcasts to a room with socket.to(canvasId)
RoomBroadcasts ==
  {"elements-updated", "user-cursors", "user-joined", "user-left"}

\* C23: every socket that is sent an elements-updated, user-cursors,
\* user-joined or user-left event of a room has, when the event is emitted,
\* an entry in the users map of that room; a socket whose join-canvas failed
\* or has not completed is sent none of them.
C23_RecipientsAreRegistered ==
  \A m \in out :
    m.ev \in RoomBroadcasts =>
      /\ Has(activeCanvases, m.canvasId)
      /\ Has(activeCanvases[m.canvasId].users, m.to)

\* the events of the step answer a join-canvas of socket c: canvas-state
\* followed by users-joined, or join-error
JoinAnswered(c) ==
  \/ \E m1, m2 \in out' :
       /\ m1.to = c /\ m1.ev = "canvas-state"
       /\ m2.to = c /\ m2.ev = "users-joined"
       /\ m1.k < m2.k
  \/ \E m \in out' : m.to = c /\ m.ev = "join-error"

\* C24: every join-canvas event of an admitted socket is answered: the step
\* that receives it either answers it or leaves a store read or the catch
\* clause of its listener pending for it, every pending read of a join and
\* every pending catch clause eventually ends, and the step that ends it
\* answers the socket when it is still connected; a join never ends with
\* neither canvas-state and users-joined nor join-error, also for a socket
\* admitted without a sessionId.
C24_EveryJoinAnswered ==
  /\ [][\A c \in Conns :
          handleJoinCanvas(c) =>
            \/ JoinAnswered(c)
            \/ \E l \in loads' \ loads : l.op = "join" /\ l.sock = c
            \/ /\ Len(catches') = Len(catches) + 1
               /\ catches'[Len(catches')] = Thrown(c, "join-canvas")]_vars
  /\ [][\A l \in loads :
          (l.op = "join" /\ l \notin loads' /\ sockSt[l.sock] = "open") =>
            JoinAnswered(l.sock)]_vars
  /\ [][\A i \in DOMAIN catches :
          ( /\ listenerCatch
            /\ catches[i].on = "join-canvas"
            /\ sockSt[catches[i].sock] = "open" )
          => JoinAnswered(catches[i].sock)]_vars
  /\ \A c \in Conns :
       (\E l \in loads : l.op = "join" /\ l.sock = c)
         ~> ~(\E l \in loads : l.op = "join" /\ l.sock = c)
  /\ (catches # <<>>) ~> (catches = <<>>)

\* C25: a user-left event is emitted for a socket only after the socket has
\* been registered in the users map of its room (the step of line 135, which
\* also broadcasts its user-joined): the disconnect of a socket that never
\* had an entry emits no user-left.
C25_LeftOnlyAfterRegistration ==
  \A m \in out : m.ev = "user-left" => m.src \in registered

\* the step handles a join-canvas, a user-cursors or a disconnect event
\* (the handler, or the catch clause of the listener), or ends the store read
\* of a join
JoinLeaveOrCursor ==
  \/ \E c \in Conns :
       \/ handleJoinCanvas(c)
       \/ handleLeaveCanvas(c)
       \/ \E p \in CursorPayloads : handleCursorPosition(c, p)
  \/ listenerCatch
  \/ \E l \in loads : handleJoinCanvasLoaded(l) \/ handleJoinCanvasLoadFailed(l)

\* C26: joins, leaves and cursor events arm no timer and write nothing; a
\* timer is armed only by the step that applies an element-update of its
\* room, a write is issued only by such a timer firing, which disarms it, and
\* the store changes only when an issued write completes.  So a write of a
\* room is issued only after an element-update was applied to the room, and
\* each applied update accounts for at most one write: the writes issued for
\* a room never outnumber the updates applied to it.
C26_WritesOnlyAfterUpdates ==
  [][/\ JoinLeaveOrCursor =>
          /\ timers' = timers
          /\ debounceTimers' = debounceTimers
          /\ saves' = saves
          /\ store' = store
     /\ \A t \in timers' :
          (\A u \in timers : u.id # t.id) =>
            /\ t.id \in 1..Len(updLog')
            /\ BecomesApplied(t.id)
            /\ updLog'[t.id].canvasId = t.canvasId
     /\ \A v \in saves' \ saves :
          /\ \E t \in timers \ timers' : t.id = v.id /\ t.canvasId = v.canvasId
          /\ \A w \in saves : w.id # v.id
          /\ updLog[v.id].st = "applied"
          /\ updLog[v.id].canvasId = v.canvasId
     /\ store' # store => saves \ saves' # {}]_vars

\* a brand-new room was created by a join and later written for the first
\* time, after an update was applied to it
C26_Witness ==
  \E r \in RoomIds :
    /\ nJoins >= 1
    /\ Has(activeCanvases, r)
    /\ activeCanvases[r].users # <<>>
    /\ ~Has(store, r)
    /\ AppliedIn(r) # {}
    /\ \E w \in saves : w.canvasId = r

====
